---- MODULE Spec2Model ----
(***************************************************************************)
(* Verification model of the exam-artifact services:                       *)
(*   - the oracle call protocol  ExamQuestionVerification.                 *)
(*     _call_agent_with_json_retry                  (specification         *)
(*     SpecProto),                                                         *)
(*   - the verify-fix loop  verify_and_fix_exam_question with its          *)
(*     verify_exam_question / fix_exam_question steps (SpecVF),            *)
(*   - the answer-sheet pipeline of StudentAnswerAnalyzer as driven by     *)
(*     the /student_analyze_content handler (SpecDoc),                     *)
(*   - parse_answer_sheet alone, on answer sheets given line by line       *)
(*     (SpecSeg),                                                          *)
(*   - _analyze_knowledge_mastery_with_llm alone, on sections handed to    *)
(*     it directly (SpecAgg),                                              *)
(*   - the verify-fix loop under fair scheduling, with its oracle calls    *)
(*     counted (SpecVFLive),                                               *)
(*   - _extract_knowledge_points_with_llm alone (SpecLabel),               *)
(*   - the paper generator and its input cache behind /paper_generate      *)
(*     and /paper_get_cached_input (SpecPaper),                            *)
(*   - two answer-sheet requests interleaved on the shared                 *)
(*     student_analyzer (SpecIso).                                         *)
(* One action is one oracle call together with all the code that runs      *)
(* between that await and the next one.                                    *)
(***************************************************************************)
EXTENDS Integers, Sequences, FiniteSets, TLC

VARIABLES
    \* ---- oracle call protocol, one invocation
    max_retry_attempts, \* the invocation's max_retry_attempts argument
    step,               \* which caller's argument set: "verify" | "fix"
    proto,              \* locals and outcome of the protocol invocation
    \* ---- verify-fix loop
    max_fix_attempts,   \* argument of verify_and_fix_exam_question
    input_question,     \* argument exam_question as received
    i,                  \* loop variable of `for i in range(max_fix_attempts)`
    exam_question_history,
    verification_result_history,
    pc,                 \* "verify" | "fix" | "done" | "raised" | "off"
    vf,                 \* protocol locals of the verify/fix step under way
    ret,                \* tuple of the values handed back to the caller
    exc,                \* class of the exception that left the loop, or NoExc
    verify_steps,       \* verify_exam_question calls started
    fix_steps,          \* fix_exam_question calls started
    origin,             \* per verdict: how the step obtained it
    last_fix,           \* outcome of the most recent fix step
    oracle_calls,       \* agent calls awaited by this invocation, counted
                        \* by SpecVFLive only
    \* ---- answer-sheet pipeline (one request)
    answer_sheet_content, \* self.answer_sheet_content: the text received
    doc_pc,             \* "parse" | "label" | "mastery" | "suggest" | "done"
                        \* | "raised" | "parsed" (parse_answer_sheet alone)
    sections,           \* report.sections
    preliminary_mastery,\* local of _analyze_knowledge_mastery_with_llm
    knowledge_mastery,  \* report.knowledge_mastery
    learning_suggestions, \* report.learning_suggestions
    buckets,            \* the five topic lists of generate_report_markdown
    doc_exc,            \* class of the exception the pipeline raised
    http_status,        \* what the request handler answered (0: nothing yet)
    oracle_log,         \* what the oracle did on each call of the request
    \* ---- paper generator (the module-level paper_generator)
    cache_memory,       \* self.cache_memory: the Msgs added, in order
    paper_pc,           \* "idle" | "paper" | "answers" | "responded" | "off"
    paper_attempt,      \* attempt, the loop variable of _call_api_with_retry
    paper_content,      \* what _generate_paper returned
    answer_content,     \* what _generate_answers returned
    paper_log,          \* the oracle calls of the request under way
    response,           \* the GenerateResponse of /paper_generate
    cached,             \* the last get_cached_input call and its result
    \* ---- answer-sheet requests on the shared student_analyzer
    requests            \* per request: its locals and what it was answered

vfVars == <<max_fix_attempts, input_question, i, exam_question_history,
            verification_result_history, pc, vf, ret, exc, verify_steps,
            fix_steps, origin, last_fix, oracle_calls>>
protoVars == <<max_retry_attempts, step, proto>>
docVars == <<answer_sheet_content, doc_pc, sections, preliminary_mastery, knowledge_mastery,
             learning_suggestions, buckets, doc_exc, http_status, oracle_log>>
paperVars == <<cache_memory, paper_pc, paper_attempt, paper_content, answer_content,
               paper_log, response, cached>>
isoVars == <<requests>>
vars == <<protoVars, vfVars, docVars, paperVars, isoVars>>

(***************************************************************************)
(* Bounds of the model.                                                    *)
(***************************************************************************)
MaxRetryAttempts == 3
MaxFixAttempts == 3

Unbound == [text |-> "<unbound>"]
NoValue == [kind |-> "none"]
NoExc == "<none>"
None == "<None>"

(***************************************************************************)
(* Data: JSON values as json.loads produces them, and the two schemas.     *)
(***************************************************************************)
\* ExamQuestion's seven fields, the fix step's required_fields.
FixRequiredFields ==
    {"question", "answer", "answer_analysis", "question_type",
     "knowledge_point", "knowledge_point_description", "extra_requirement"}

VerifyRequiredFields == {"is_compliant", "suggestion"}

\* The Literal of ExamQuestion.question_type.
QuestionTypes ==
    {"single_choice", "multi_choice", "fill_blank", "brief_answer",
     "calculation", "programming"}

JObject(f) == [kind |-> "object", fields |-> f]
JArray(s) == [kind |-> "array", elems |-> s]
\* A JSON string, known by the field names that occur in it as substrings.
JString(s) == [kind |-> "string", subs |-> s]
JNumber == [kind |-> "number"]
\* A pydantic model instance (what the fix step's default_factory returns).
ModelObject(a) == [kind |-> "model", fields |-> a]

\* Oracle text: either text json.loads rejects, or the text of a JSON value.
NotJson == [text |-> "not json"]
JsonText(v) == [text |-> "json", value |-> v]

\* json.loads(res.content)
JsonLoads(content) ==
    IF content.text = "json"
    THEN [raised |-> NoExc, value |-> content.value]
    ELSE [raised |-> "JSONDecodeError", value |-> None]

\* Python's `field in json_res` for the value kinds json.loads returns.
FieldIn(field, v) ==
    CASE v.kind = "object" -> IF field \in DOMAIN v.fields THEN "yes" ELSE "no"
      [] v.kind = "array"  -> IF field \in v.elems THEN "yes" ELSE "no"
      [] v.kind = "string" -> IF field \in v.subs THEN "yes" ELSE "no"
      [] OTHER             -> "TypeError"

\* for field in required_fields: if field not in json_res: raise ValueError
RequiredFieldsCheck(v, required) ==
    IF \E f \in required : FieldIn(f, v) = "TypeError" THEN "TypeError"
    ELSE IF \E f \in required : FieldIn(f, v) = "no" THEN "ValueError"
    ELSE NoExc

\* except-clause mutant: JSONDecodeError no longer caught.
CaughtExceptionsNoDecode == {"ValueError", "KeyError"}

\* except (json.JSONDecodeError, ValueError, KeyError)
CaughtExceptions == {"JSONDecodeError", "ValueError", "KeyError"}

(***************************************************************************)
(* The oracle call protocol, one attempt at a time.                        *)
(***************************************************************************)
ProtoStart ==
    [attempt |-> 0, res |-> Unbound, calls |-> 0, fails |-> 0,
     outcome |-> "running", value |-> NoValue, exc |-> NoExc, events |-> <<>>,
     prompts |-> <<>>]

\* An exception leaves the protocol.
Propagate(p, class) == [p EXCEPT !.outcome = "raised", !.exc = class]

\* retry mutant: the last attempt is recognised one attempt late.
HandleFailureOneMore(p, n, default) ==
    IF p.res = Unbound
    THEN Propagate(p, "UnboundLocalError")
    ELSE IF p.attempt = n
         THEN [p EXCEPT !.outcome = "default", !.value = default,
                        !.fails = @ + 1]
         ELSE [p EXCEPT !.attempt = @ + 1, !.fails = @ + 1]

\* The except block: report the failure, then default or next attempt.
HandleFailure(p, n, default) ==
    IF p.res = Unbound
    THEN Propagate(p, "UnboundLocalError")  \* print(res.content), res unset
    ELSE IF p.attempt = n - 1
         THEN [p EXCEPT !.outcome = "default", !.value = default,
                        !.fails = @ + 1]
         ELSE [p EXCEPT !.attempt = @ + 1, !.fails = @ + 1]

\* An exception raised inside the try block.
RaisedInTry(p, class, n, default) ==
    IF class \in CaughtExceptions
    THEN HandleFailure(p, n, default)
    ELSE Propagate(p, class)

\* The try block after the oracle answered with `content`.
OnResponse(p, content, n, required, default) ==
    LET q == [p EXCEPT !.res = content]
        parsed == JsonLoads(content)
    IN  IF parsed.raised # NoExc
        THEN RaisedInTry(q, parsed.raised, n, default)
        ELSE LET chk == RequiredFieldsCheck(parsed.value, required)
             IN  IF chk # NoExc
                 THEN RaisedInTry(q, chk, n, default)
                 ELSE [q EXCEPT !.outcome = "accepted",
                                !.value = parsed.value]

\* prompt mutant: every attempt sends the caller's prompt.
PromptAlwaysOriginal(attempt) == "prompt"

\* The content of the message of an attempt: the caller's prompt, or the
\* retry_prompt built from json_format_prompt alone.
PromptOf(attempt) == IF attempt = 0 THEN "prompt" ELSE "retry_prompt"

\* One iteration of `for attempt in range(max_retry_attempts)`; e is what
\* the awaited agent call did.
AttemptStep(p, e, n, required, default) ==
    LET called == [p EXCEPT !.calls = @ + 1, !.events = Append(@, e),
                            !.prompts = Append(@, PromptOf(p.attempt))]
    IN  IF e.ev = "raise"
        THEN RaisedInTry(called, e.class, n, default)
        ELSE OnResponse(called, e.content, n, required, default)

(***************************************************************************)
(* Scalar JSON values and the pydantic schemas of schemas.py.              *)
(***************************************************************************)
JBool(b) == [t |-> "bool", v |-> IF b THEN "true" ELSE "false"]
JStr(s) == [t |-> "str", v |-> s]
JNum(s) == [t |-> "num", v |-> s]
JNull == [t |-> "null", v |-> None]

\* pydantic's validation of a `bool` field (lax mode): TRUE, FALSE, or
\* "invalid" for a value the field rejects.
CoerceBool(x) ==
    CASE x.t = "bool" -> IF x.v = "true" THEN "True" ELSE "False"
      [] x.t = "str"  -> IF x.v \in {"true", "yes", "on", "1", "t", "y"}
                         THEN "True"
                         ELSE IF x.v \in {"false", "no", "off", "0", "f", "n"}
                              THEN "False" ELSE "invalid"
      [] x.t = "num"  -> IF x.v = "1" THEN "True"
                         ELSE IF x.v = "0" THEN "False" ELSE "invalid"
      [] OTHER        -> "invalid"

\* str.strip() on the strings of the model.
Strip(s) ==
    CASE s = "  question C  " -> "question C"
      [] s = "   "            -> ""
      [] OTHER                -> s

\* len() on the (stripped) strings of the model.
StrLen(s) ==
    CASE s = ""    -> 0
      [] s = "abc" -> 3
      [] OTHER     -> 10

\* A required `str` field with min_length, after the strip_strings validator.
StrFieldOk(x, minlen) == x.t = "str" /\ StrLen(Strip(x.v)) >= minlen

\* An Optional[str] field.
OptStrFieldOk(x) == x.t \in {"str", "null"}

FieldValue(x) == IF x.t = "str" THEN Strip(x.v) ELSE None

\* VerificationResult(**json_res)
MakeVerificationResult(v) ==
    IF v.kind # "object"
    THEN [raised |-> "TypeError", value |-> None]  \* ** needs a mapping
    ELSE LET f == v.fields
             sugg == IF "suggestion" \in DOMAIN f THEN f["suggestion"]
                     ELSE JNull
         IN  IF \/ "is_compliant" \notin DOMAIN f
                \/ CoerceBool(f["is_compliant"]) = "invalid"
                \/ ~OptStrFieldOk(sugg)
             THEN [raised |-> "ValidationError", value |-> None]
             ELSE [raised |-> NoExc,
                   value |-> [is_compliant |->
                                 CoerceBool(f["is_compliant"]) = "True",
                              suggestion |->
                                 IF sugg.t = "str" THEN sugg.v ELSE None]]

\* ExamQuestion(**json_res)
MakeExamQuestion(v) ==
    IF v.kind # "object"
    THEN [raised |-> "TypeError", value |-> None]  \* ** needs a mapping
    ELSE LET f == v.fields
             opt(name) == IF name \in DOMAIN f THEN f[name] ELSE JStr("")
         IN  IF \/ {"question", "answer", "question_type", "answer_analysis"}
                      \ DOMAIN f # {}
                \/ ~StrFieldOk(f["question"], 5)
                \/ ~StrFieldOk(f["answer"], 1)
                \/ ~StrFieldOk(f["answer_analysis"], 1)
                \/ f["question_type"].t # "str"
                \/ Strip(f["question_type"].v) \notin QuestionTypes
                \/ ~OptStrFieldOk(opt("knowledge_point"))
                \/ ~OptStrFieldOk(opt("knowledge_point_description"))
                \/ ~OptStrFieldOk(opt("extra_requirement"))
             THEN [raised |-> "ValidationError", value |-> None]
             ELSE [raised |-> NoExc,
                   value |->
                     [question |-> FieldValue(f["question"]),
                      answer |-> FieldValue(f["answer"]),
                      answer_analysis |-> FieldValue(f["answer_analysis"]),
                      question_type |-> FieldValue(f["question_type"]),
                      knowledge_point |-> FieldValue(opt("knowledge_point")),
                      knowledge_point_description |->
                          FieldValue(opt("knowledge_point_description")),
                      extra_requirement |->
                          FieldValue(opt("extra_requirement"))]]

(***************************************************************************)
(* Arguments the two steps pass to the protocol.                           *)
(***************************************************************************)
\* default-verdict mutant: exhaustion reported as compliant.
VerifyDefaultCompliant ==
    JObject([is_compliant |-> JBool(TRUE),
             suggestion |-> JStr("manual review required")])

\* verify_exam_question's default_factory()
VerifyDefault ==
    JObject([is_compliant |-> JBool(FALSE),
             suggestion |-> JStr("manual review required")])

\* fix_exam_question's default_factory(): the ExamQuestion it was given.
FixDefault(exam_question) == ModelObject(exam_question)

\* The max_retry_attempts both steps pass.
StepRetryAttempts == 3

RequiredFieldsOf(s) ==
    IF s = "verify" THEN VerifyRequiredFields ELSE FixRequiredFields

(***************************************************************************)
(* What the oracle may do on one call.                                     *)
(***************************************************************************)
ArtifactJson(q, a, n, t, e) ==
    JObject([question |-> JStr(q), answer |-> JStr(a),
             answer_analysis |-> JStr(n), question_type |-> JStr(t),
             knowledge_point |-> JStr("kp"),
             knowledge_point_description |-> JStr("kpd"),
             extra_requirement |-> JStr(e)])

Question0 ==
    [question |-> "question A", answer |-> "answer A",
     answer_analysis |-> "analysis A", question_type |-> "brief_answer",
     knowledge_point |-> "", knowledge_point_description |-> "",
     extra_requirement |-> "make it fill_blank"]

Question1 ==
    [question |-> "question D", answer |-> "answer D",
     answer_analysis |-> "analysis D", question_type |-> "single_choice",
     knowledge_point |-> "kp", knowledge_point_description |-> "kpd",
     extra_requirement |-> ""]

InputQuestions == {Question0, Question1}

\* Parsed values that are no record although they name the fields.
NonRecordValues(required) == {JArray(required), JString(required), JNumber}

VerifyValues ==
    {JObject([is_compliant |-> JBool(TRUE), suggestion |-> JStr("")]),
     JObject([is_compliant |-> JBool(FALSE), suggestion |-> JStr("reword")]),
     JObject([is_compliant |-> JStr("yes"), suggestion |-> JNull]),
     JObject([is_compliant |-> JStr("maybe"), suggestion |-> JStr("reword")]),
     JObject([suggestion |-> JStr("reword")])}
    \cup NonRecordValues(VerifyRequiredFields)

FixValues ==
    {ArtifactJson("question B", "answer B", "analysis B", "fill_blank", ""),
     ArtifactJson("  question C  ", "answer C", "analysis C", "fill_blank",
                  ""),
     ArtifactJson("question B", "answer B", "analysis B", "essay", ""),
     JObject([question |-> JStr("question B"), answer |-> JStr("answer B")])}
    \cup NonRecordValues(FixRequiredFields)

ValuesOf(s) == IF s = "verify" THEN VerifyValues ELSE FixValues

TextEvents(s) ==
    {[ev |-> "text", content |-> NotJson]}
    \cup {[ev |-> "text", content |-> JsonText(v)] : v \in ValuesOf(s)}

\* The awaited call itself fails: a class the except clause names, or not.
RaiseEvents ==
    {[ev |-> "raise", class |-> c] : c \in {"ValueError", "TimeoutError"}}

(***************************************************************************)
(* SpecProto: one invocation of the protocol, any max_retry_attempts.      *)
(***************************************************************************)
DefaultOf(s, q) == IF s = "verify" THEN VerifyDefault ELSE FixDefault(q)

NoFix == [done |-> FALSE]

NoBuckets ==
    [objective_mastered |-> {}, objective_wrong |-> {},
     subjective_mastered |-> {}, subjective_partial |-> {},
     subjective_weak |-> {}]

\* get_cached_input returned None.
NoCachedData == [none |-> TRUE]

NoQuery == [asked |-> FALSE]

NoResponse == [sent |-> FALSE]

PaperOff ==
    /\ cache_memory = <<>>
    /\ paper_pc = "off"
    /\ paper_attempt = 0
    /\ paper_content = <<>>
    /\ answer_content = <<>>
    /\ paper_log = <<>>
    /\ response = NoResponse
    /\ cached = NoQuery

IsoOff == requests = <<>>

DocOff ==
    /\ answer_sheet_content = <<>>
    /\ doc_pc = "off"
    /\ sections = <<>>
    /\ preliminary_mastery = <<>>
    /\ knowledge_mastery = <<>>
    /\ learning_suggestions = <<>>
    /\ buckets = NoBuckets
    /\ doc_exc = NoExc
    /\ http_status = 0
    /\ oracle_log = <<>>

VfOff ==
    /\ max_fix_attempts = 0
    /\ input_question = Question0
    /\ i = 0
    /\ exam_question_history = <<>>
    /\ verification_result_history = <<>>
    /\ pc = "off"
    /\ vf = ProtoStart
    /\ ret = <<>>
    /\ exc = NoExc
    /\ verify_steps = 0
    /\ fix_steps = 0
    /\ origin = <<>>
    /\ last_fix = NoFix
    /\ oracle_calls = 0

ProtoInit ==
    /\ max_retry_attempts \in 1..MaxRetryAttempts
    /\ step \in {"verify", "fix"}
    /\ proto = ProtoStart
    /\ VfOff
    /\ DocOff
    /\ PaperOff
    /\ IsoOff

ProtoAttempt(e) ==
    /\ proto.outcome = "running"
    /\ proto' = AttemptStep(proto, e, max_retry_attempts,
                            RequiredFieldsOf(step),
                            DefaultOf(step, Question0))
    /\ UNCHANGED <<max_retry_attempts, step, vfVars, docVars, paperVars, isoVars>>

OracleAnswers == \E e \in TextEvents(step) : ProtoAttempt(e)

OracleRaises == \E e \in RaiseEvents : ProtoAttempt(e)

ProtoNext == OracleAnswers \/ OracleRaises

SpecProto == ProtoInit /\ [][ProtoNext]_vars

(***************************************************************************)
(* SpecVF: verify_and_fix_exam_question.                                   *)
(***************************************************************************)
Last(seq) == seq[Len(seq)]

\* loop mutant: the compliant verdict does not end the loop.
ShouldBreakNever(verification_result) == FALSE

\* if bool(verification_result.is_compliant): break
ShouldBreak(verification_result) == verification_result.is_compliant

\* loop mutant: one iteration too many.
LoopContinuesOneMore(k, n) == k <= n

\* `for i in range(max_fix_attempts)`: after iteration k-1, is there a k?
LoopContinues(k, n) == k < n

\* return mutant: the verdict history handed back as well.
ReturnValueWithHistory(questions, verdicts) == <<Last(questions), verdicts>>

\* return exam_question_history[-1]
ReturnValue(questions, verdicts) == <<Last(questions)>>

ProtoOff ==
    /\ max_retry_attempts = StepRetryAttempts
    /\ step = "verify"
    /\ proto = ProtoStart

VFInit ==
    /\ max_fix_attempts \in 1..MaxFixAttempts
    /\ input_question \in InputQuestions
    /\ i = 0
    /\ exam_question_history = <<input_question>>
    /\ verification_result_history = <<>>
    /\ pc = "verify"
    /\ vf = ProtoStart
    /\ ret = <<>>
    /\ exc = NoExc
    /\ verify_steps = 0
    /\ fix_steps = 0
    /\ origin = <<>>
    /\ last_fix = NoFix
    /\ oracle_calls = 0
    /\ ProtoOff
    /\ DocOff
    /\ PaperOff
    /\ IsoOff

\* An exception leaves verify_and_fix_exam_question.
Raise(p, class) ==
    /\ pc' = "raised"
    /\ exc' = class
    /\ vf' = p
    /\ UNCHANGED <<i, exam_question_history, verification_result_history,
                   ret, origin>>

\* verify_exam_question returned verification_result: the rest of the
\* loop body up to the next await.
AfterVerify(p, verification_result) ==
    LET verdicts == Append(verification_result_history, verification_result)
    IN  /\ verification_result_history' = verdicts
        /\ origin' = Append(origin, [exhausted |-> p.outcome = "default",
                                     record |-> p.value,
                                     iteration |-> i])
        /\ exc' = NoExc
        /\ UNCHANGED <<i, exam_question_history>>
        /\ IF ShouldBreak(verification_result)
           THEN /\ pc' = "done"
                /\ vf' = p
                /\ ret' = ReturnValue(exam_question_history, verdicts)
           ELSE /\ pc' = "fix"
                /\ vf' = ProtoStart
                /\ ret' = ret

\* One oracle call of verify_exam_question.
VerifyAttempt(e) ==
    /\ pc = "verify"
    /\ verify_steps' = IF vf.calls = 0 THEN verify_steps + 1 ELSE verify_steps
    /\ UNCHANGED <<max_fix_attempts, input_question, fix_steps, last_fix,
                   protoVars, docVars, paperVars, isoVars>>
    /\ LET p == AttemptStep(vf, e, StepRetryAttempts, VerifyRequiredFields,
                            VerifyDefault)
       IN  CASE p.outcome = "running" ->
                  /\ vf' = p
                  /\ UNCHANGED <<i, exam_question_history,
                                 verification_result_history, pc, ret, exc,
                                 origin>>
             [] p.outcome = "raised" -> Raise(p, p.exc)
             [] OTHER ->
                  LET made == MakeVerificationResult(p.value)
                  IN  IF made.raised # NoExc
                      THEN Raise(p, made.raised)
                      ELSE AfterVerify(p, made.value)

\* fix_exam_question returned exam_question: the rest of the loop body and,
\* after the last iteration, the return.
AfterFix(p, exam_question) ==
    LET questions == Append(exam_question_history, exam_question)
    IN  /\ exam_question_history' = questions
        /\ i' = i + 1
        /\ exc' = NoExc
        /\ UNCHANGED <<verification_result_history, origin>>
        /\ IF LoopContinues(i + 1, max_fix_attempts)
           THEN /\ pc' = "verify"
                /\ vf' = ProtoStart
                /\ ret' = ret
           ELSE /\ pc' = "done"
                /\ vf' = p
                /\ ret' = ReturnValue(questions, verification_result_history)

\* One oracle call of fix_exam_question (its verdict is non-compliant:
\* the loop reaches the fix step only then).
FixAttempt(e) ==
    /\ pc = "fix"
    /\ ~Last(verification_result_history).is_compliant
    /\ fix_steps' = IF vf.calls = 0 THEN fix_steps + 1 ELSE fix_steps
    /\ UNCHANGED <<max_fix_attempts, input_question, verify_steps, protoVars,
                   docVars, paperVars, isoVars>>
    /\ LET given == Last(exam_question_history)
           p == AttemptStep(vf, e, StepRetryAttempts, FixRequiredFields,
                            FixDefault(given))
       IN  CASE p.outcome = "running" ->
                  /\ vf' = p
                  /\ last_fix' = NoFix
                  /\ UNCHANGED <<i, exam_question_history,
                                 verification_result_history, pc, ret, exc,
                                 origin>>
             [] p.outcome = "raised" ->
                  /\ Raise(p, p.exc)
                  /\ last_fix' = [done |-> TRUE, given |-> given,
                                  exhausted |-> FALSE, returned |-> FALSE,
                                  result |-> given]
             [] OTHER ->
                  LET made == MakeExamQuestion(p.value)
                  IN  IF made.raised # NoExc
                      THEN /\ Raise(p, made.raised)
                           /\ last_fix' =
                                [done |-> TRUE, given |-> given,
                                 exhausted |-> p.outcome = "default",
                                 returned |-> FALSE, result |-> given]
                      ELSE /\ AfterFix(p, made.value)
                           /\ last_fix' =
                                [done |-> TRUE, given |-> given,
                                 exhausted |-> p.outcome = "default",
                                 returned |-> TRUE, result |-> made.value]

VerifyOracleAnswers ==
    \E e \in TextEvents("verify") :
        VerifyAttempt(e) /\ UNCHANGED oracle_calls

VerifyOracleRaises ==
    \E e \in RaiseEvents : VerifyAttempt(e) /\ UNCHANGED oracle_calls

FixOracleAnswers ==
    \E e \in TextEvents("fix") : FixAttempt(e) /\ UNCHANGED oracle_calls

FixOracleRaises ==
    \E e \in RaiseEvents : FixAttempt(e) /\ UNCHANGED oracle_calls

VFNext ==
    \/ VerifyOracleAnswers
    \/ VerifyOracleRaises
    \/ FixOracleAnswers
    \/ FixOracleRaises

SpecVF == VFInit /\ [][VFNext]_vars

(***************************************************************************)
(* SpecVFLive: the same loop with every awaited agent call counted and     *)
(* completing (with a response or an exception); the oracle answers text   *)
(* that is no JSON, a valid record, or fails.                              *)
(***************************************************************************)
CountedEvents(s) ==
    {[ev |-> "text", content |-> NotJson],
     [ev |-> "raise", class |-> "TimeoutError"]}
    \cup {[ev |-> "text", content |-> JsonText(v)] :
             v \in IF s = "verify"
                   THEN {JObject([is_compliant |-> JBool(TRUE),
                                  suggestion |-> JStr("")]),
                         JObject([is_compliant |-> JBool(FALSE),
                                  suggestion |-> JStr("reword")])}
                   ELSE {ArtifactJson("question B", "answer B", "analysis B",
                                      "fill_blank", "")}}

VerifyCallCounted ==
    \E e \in CountedEvents("verify") :
        VerifyAttempt(e) /\ oracle_calls' = oracle_calls + 1

FixCallCounted ==
    \E e \in CountedEvents("fix") :
        FixAttempt(e) /\ oracle_calls' = oracle_calls + 1

VFLiveNext == VerifyCallCounted \/ FixCallCounted

SpecVFLive == VFInit /\ [][VFLiveNext]_vars /\ WF_vars(VFLiveNext)

(***************************************************************************)
(* SpecDoc: the answer-sheet pipeline of one /student_analyze_content      *)
(* request: topic labeling, mastery aggregation with refinement,           *)
(* suggestion generation, report assembly.  Mastery values are exact       *)
(* rationals [n, d].                                                        *)
(***************************************************************************)
MaxLines == 2

ObjectiveTypes == {"single_choice", "multi_choice", "true_false", "fill_blank"}
SubjectiveTypes == {"short_answer", "programming"}

Abs(a) == IF a < 0 THEN -a ELSE a

RECURSIVE GCD(_, _)
GCD(a, b) == IF b = 0 THEN a ELSE GCD(b, a % b)

Rat(n, d) ==
    LET g == GCD(Abs(n), d) IN [n |-> n \div g, d |-> d \div g]
RatAdd(x, y) == Rat(x.n * y.d + y.n * x.d, x.d * y.d)
RatMulInt(x, k) == Rat(x.n * k, x.d)
RatDivInt(x, k) == Rat(x.n, x.d * k)
RatGeqInt(x, k) == x.n >= k * x.d
RatEqInt(x, k) == x.n = k * x.d

EmptyDict == [x \in {} |-> 0]
Put(f, k, v) == [x \in DOMAIN f \cup {k} |-> IF x = k THEN v ELSE f[x]]

\* QuestionAnalysis and SectionAnalysis as _parse_question/_parse_section
\* build them.
Question(number, type, label, score, student_score) ==
    [question_number |-> number, question_type |-> type,
     knowledge_point |-> label, score |-> score,
     student_score |-> student_score,
     correct_answer |-> "ref", student_answer |-> "ans"]

Section(type, total, student, questions) ==
    [section_name |-> type, question_type |-> type, total_score |-> total,
     student_score |-> student, questions |-> questions]

(***************************************************************************)
(* The answer sheet is a sequence of lines.  A line is a section heading   *)
(* "## <marker>、<type name>（共N分）", a section score line "得分：N", an  *)
(* item "### 第k题 / <label>（N分） / 得分：N", the summary heading          *)
(* "## 考试总结", or prose (which may contain a type name).                  *)
(***************************************************************************)
NoMark == -1

Heading(t, total) ==
    [k |-> "heading", type |-> t, n |-> total, m |-> NoMark, label |-> ""]
ScoreLine(student) ==
    [k |-> "score", type |-> "", n |-> NoMark, m |-> student, label |-> ""]
Item(label, score, student) ==
    [k |-> "item", type |-> "", n |-> score, m |-> student, label |-> label]
SummaryHeading ==
    [k |-> "summary", type |-> "", n |-> NoMark, m |-> NoMark, label |-> ""]
Prose(t) ==
    [k |-> "text", type |-> t, n |-> NoMark, m |-> NoMark, label |-> ""]

\* The keys of section_patterns, in the order the dict is iterated.
SectionTypes ==
    <<"single_choice", "multi_choice", "true_false", "fill_blank",
      "short_answer", "programming">>

Min(S) == CHOOSE x \in S : \A y \in S : x <= y

\* "## \S+?、" matches at this line.
IsTypeHeading(line) == line.k = "heading"

\* The type name occurs in this line.
Mentions(line, t) == line.k \in {"heading", "text"} /\ line.type = t

\* What closes the pattern of type t: "## \S+?、", or "## 考试总结" for the
\* programming pattern.
Closes(line, t) ==
    IF t = "programming" THEN line.k = "summary" ELSE IsTypeHeading(line)

\* The part of the closing line that belongs to the match: "## <marker>、"
\* of a heading, all of "## 考试总结".
HeadingMarker ==
    [k |-> "marker", type |-> "", n |-> NoMark, m |-> NoMark, label |-> ""]
MatchedPartOf(line) ==
    IF line.k = "heading" THEN HeadingMarker ELSE line

\* re.search(section_patterns[t], content, re.DOTALL): leftmost start, lazy
\* quantifiers.  The second alternative of the programming pattern, "$",
\* matches the empty text at the end of every content.
SectionSearch(content, t) ==
    LET n == Len(content)
        starts == {a \in 1..n :
                      /\ IsTypeHeading(content[a])
                      /\ \E b \in a..n :
                            /\ Mentions(content[b], t)
                            /\ \E c \in (b + 1)..n : Closes(content[c], t)}
    IN  IF starts = {}
        THEN [matched |-> t = "programming", text |-> <<>>]
        ELSE LET a == Min(starts)
                 b == Min({x \in a..n : Mentions(content[x], t)})
                 c == Min({x \in (b + 1)..n : Closes(content[x], t)})
             IN  [matched |-> TRUE,
                  text |-> Append(SubSeq(content, a, c - 1),
                                  MatchedPartOf(content[c]))]

\* str(index)
Ordinal(index) ==
    <<"1", "2", "3", "4", "5", "6", "7", "8", "9", "10", "11", "12">>[index]

\* f"{question_type.value}{index}"
DefaultLabel ==
    [single_choice |->
         <<"single_choice1", "single_choice2", "single_choice3",
           "single_choice4", "single_choice5", "single_choice6",
           "single_choice7", "single_choice8", "single_choice9",
           "single_choice10", "single_choice11", "single_choice12">>,
     multi_choice |->
         <<"multi_choice1", "multi_choice2", "multi_choice3",
           "multi_choice4", "multi_choice5", "multi_choice6",
           "multi_choice7", "multi_choice8", "multi_choice9",
           "multi_choice10", "multi_choice11", "multi_choice12">>,
     true_false |->
         <<"true_false1", "true_false2", "true_false3",
           "true_false4", "true_false5", "true_false6",
           "true_false7", "true_false8", "true_false9",
           "true_false10", "true_false11", "true_false12">>,
     fill_blank |->
         <<"fill_blank1", "fill_blank2", "fill_blank3",
           "fill_blank4", "fill_blank5", "fill_blank6",
           "fill_blank7", "fill_blank8", "fill_blank9",
           "fill_blank10", "fill_blank11", "fill_blank12">>,
     short_answer |->
         <<"short_answer1", "short_answer2", "short_answer3",
           "short_answer4", "short_answer5", "short_answer6",
           "short_answer7", "short_answer8", "short_answer9",
           "short_answer10", "short_answer11", "short_answer12">>,
     programming |->
         <<"programming1", "programming2", "programming3",
           "programming4", "programming5", "programming6",
           "programming7", "programming8", "programming9",
           "programming10", "programming11", "programming12">>]

\* How a line that is not an item reads when it becomes the first line of
\* a block.
LineText(line) ==
    CASE line.k = "heading" -> "## heading"
      [] line.k = "score"   -> "score line"
      [] line.k = "summary" -> "## summary"
      [] line.k = "marker"  -> "## marker"
      [] OTHER              -> "prose"

\* _extract_question_content and the label default of _parse_question.
QuestionContent(block, t, index) ==
    IF block[1].label # "" THEN block[1].label
    ELSE IF Len(block) > 1 THEN LineText(block[2])
    ELSE DefaultLabel[t][index]

\* score mutant: a missing marker is not replaced by "0".
ExtractScoresNoDefault(block) ==
    LET students == {x \in DOMAIN block : block[x].m # NoMark}
    IN  [score |-> block[1].n,
         student_score |->
             IF students = {} THEN NoMark ELSE block[Min(students)].m]

\* _extract_scores: first "（N分）" and first "得分：N" of the block.
ExtractScores(block) ==
    LET students == {x \in DOMAIN block : block[x].m # NoMark}
    IN  [score |-> IF block[1].n # NoMark THEN block[1].n ELSE 0,
         student_score |->
             IF students = {} THEN 0 ELSE block[Min(students)].m]

ParseQuestion(block, t, index) ==
    Question(Ordinal(index), t, QuestionContent(block, t, index),
             ExtractScores(block).score, ExtractScores(block).student_score)

\* re.split(r"### 第\d+题", section_content)[1:]
QuestionBlocks(text) ==
    LET marks == {x \in DOMAIN text : text[x].k = "item"}
        NthMark(j) ==
            CHOOSE x \in marks : Cardinality({y \in marks : y < x}) = j - 1
        BlockEnd(j) ==
            IF j = Cardinality(marks) THEN Len(text) ELSE NthMark(j + 1) - 1
    IN  [j \in 1..Cardinality(marks) |->
            SubSeq(text, NthMark(j), BlockEnd(j))]

\* for i, block in enumerate(question_blocks[1:], 1)
ParseQuestions(text, t) ==
    [j \in DOMAIN QuestionBlocks(text) |->
        ParseQuestion(QuestionBlocks(text)[j], t, j)]

ParseSection(text, t) ==
    LET named == {x \in DOMAIN text : text[x].k = "heading"}
        scored == {x \in DOMAIN text : text[x].m # NoMark}
    IN  [section_name |-> IF named = {} THEN t ELSE text[Min(named)].type,
         question_type |-> t,
         total_score |-> IF named = {} THEN 0 ELSE text[Min(named)].n,
         student_score |-> IF scored = {} THEN 0 ELSE text[Min(scored)].m,
         questions |-> ParseQuestions(text, t)]

RECURSIVE ParseSectionsFrom(_, _)
ParseSectionsFrom(content, j) ==
    IF j > Len(SectionTypes) THEN <<>>
    ELSE LET found == SectionSearch(content, SectionTypes[j])
         IN  (IF found.matched
              THEN <<ParseSection(found.text, SectionTypes[j])>>
              ELSE <<>>)
             \o ParseSectionsFrom(content, j + 1)

ParseSections(content) == ParseSectionsFrom(content, 1)

\* Sheets for parse_answer_sheet alone: one section per type of any
\* arrangement of any subset of the types, with or without the summary
\* heading, and some sheets with irregular content.
TypeIndex(t) == CHOOSE j \in DOMAIN SectionTypes : SectionTypes[j] = t
TotalOf(t) == 10 * TypeIndex(t)
StudentOf(t) == TypeIndex(t)
ItemLabelOf(t) ==
    <<"q_single", "q_multi", "q_judge", "q_blank", "q_short",
      "q_program">>[TypeIndex(t)]

SectionLines(t) ==
    <<Heading(t, TotalOf(t)), ScoreLine(StudentOf(t)),
      Item(ItemLabelOf(t), 5, 3)>>

RECURSIVE SheetOf(_)
SheetOf(order) ==
    IF order = <<>> THEN <<>>
    ELSE SectionLines(order[1]) \o SheetOf(Tail(order))

Arrangements ==
    {o \in UNION {[1..n -> {SectionTypes[j] : j \in DOMAIN SectionTypes}] :
                     n \in 0..Len(SectionTypes)} :
        \A a, b \in DOMAIN o : a # b => o[a] # o[b]}

RegularSheets ==
    {SheetOf(o) : o \in Arrangements}
    \cup {SheetOf(o) \o <<SummaryHeading>> : o \in Arrangements}

IrregularSheets ==
    {<<Heading("single_choice", 10), ScoreLine(8), Item("qa", 5, 5)>>,
     <<Prose(""), Heading("single_choice", 10), ScoreLine(8),
       Item("qa", 5, 5), Item("qb", 5, 0)>>,
     <<Heading("single_choice", 10), ScoreLine(8), Item("qa", 5, 5),
       Prose("multi_choice"), Heading("true_false", 30), ScoreLine(3),
       Item("qb", 5, 0), SummaryHeading>>,
     <<Heading("single_choice", 10), Item("qa", NoMark, 4),
       Item("", NoMark, NoMark), Heading("programming", 60),
       Item("qc", 20, NoMark), Item("", NoMark, NoMark), SummaryHeading>>,
     <<Heading("programming", 60), ScoreLine(40), Item("qa", 30, 20),
       Item("qb", 30, 20)>>}

SegSheets == RegularSheets \cup IrregularSheets

SegInit ==
    /\ doc_pc = "parse"
    /\ answer_sheet_content \in SegSheets
    /\ sections = <<>>
    /\ preliminary_mastery = <<>>
    /\ knowledge_mastery = <<>>
    /\ learning_suggestions = <<>>
    /\ buckets = NoBuckets
    /\ doc_exc = NoExc
    /\ http_status = 0
    /\ oracle_log = <<>>
    /\ ProtoOff
    /\ VfOff
    /\ PaperOff
    /\ IsoOff

\* parse_answer_sheet
ParseAnswerSheet ==
    /\ doc_pc = "parse"
    /\ sections' = ParseSections(answer_sheet_content)
    /\ knowledge_mastery' = EmptyDict
    /\ learning_suggestions' = <<>>
    /\ doc_pc' = "parsed"
    /\ UNCHANGED <<answer_sheet_content, preliminary_mastery, buckets,
                   doc_exc, http_status, oracle_log, protoVars, vfVars, paperVars, isoVars>>

SegNext == ParseAnswerSheet

SpecSeg == SegInit /\ [][SegNext]_vars

\* Answer sheets the pipeline is run on.
PipelineSheets ==
    {<<>>,
     <<Heading("single_choice", 5), ScoreLine(5), Item("qa", 5, 5),
       Heading("multi_choice", 0)>>,
     <<Heading("programming", 10), ScoreLine(0),
       Item("qa", NoMark, NoMark), SummaryHeading>>,
     <<Heading("single_choice", 10), ScoreLine(5), Item("qa", 5, 5),
       Item("qb", 5, 0), Heading("programming", 10), ScoreLine(7),
       Item("qa", 5, 3), Item("qc", 5, 7), SummaryHeading>>,
     <<Heading("short_answer", 10), ScoreLine(7), Item("qa", 5, 3),
       Item("qa", 5, 4), Heading("fill_blank", 10), ScoreLine(5),
       Item("qa", 5, 5), Item("qa", 5, 0), Heading("programming", 10),
       ScoreLine(12), Item("qd", 10, 12), SummaryHeading>>}

\* Reports parse_answer_sheet can hand to the pipeline.
ParsedDocuments == {ParseSections(d) : d \in PipelineSheets}

\* str.strip() on the texts of the model.
StripText(t) ==
    CASE t = " 2 "            -> "2"
      [] t = " T1"            -> "T1"
      [] t = " 150 "          -> "150"
      [] t = "   "            -> ""
      [] t = " practice more " -> "practice more"
      [] OTHER                -> t

\* _clean_text: quotes removed, line breaks to blanks, stripped.
CleanText(t) == IF t = "'T2'" THEN "T2" ELSE StripText(t)

\* One line of oracle text: with a ':' (split once at the first) or without.
Line(left, right) == [colon |-> TRUE, left |-> left, right |-> right]
NoColonLine == [colon |-> FALSE, left |-> "", right |-> ""]

RECURSIVE SeqsUpTo(_, _)
SeqsUpTo(S, n) ==
    IF n = 0 THEN {<<>>}
    ELSE LET shorter == SeqsUpTo(S, n - 1)
         IN  shorter \cup {Append(q, x) : q \in shorter, x \in S}

RaisedCall == [ev |-> "raise", class |-> "TimeoutError"]
TextCall(lines) == [ev |-> "text", lines |-> lines]

LabelLines ==
    {Line("1", " T1"), Line(" 2 ", "'T2'"), Line("no.1", "T3"), NoColonLine}

LabelEvents ==
    {TextCall(l) : l \in SeqsUpTo(LabelLines, MaxLines)} \cup {RaisedCall}

MasteryLines ==
    {Line("T1", "85%"), Line("qa", "high"), Line("T2", " 150 "),
     Line("ghost", "40"), NoColonLine}

MasteryEvents ==
    {TextCall(l) : l \in SeqsUpTo(MasteryLines, MaxLines)} \cup {RaisedCall}

SuggestionEvents ==
    {TextCall(l) : l \in
        {<<"">>, <<"   ">>, <<"sorry, wufa answer this">>,
         <<"review loops", "", " practice more ">>,
         <<"review loops", "you buneng skip the basics">>,
         <<"s1", "s2", "s3", "s4", "s5", "s6">>}}
    \cup {RaisedCall}

\* knowledge_points[question_number.strip()] = clean_knowledge_point,
\* line by line.
RECURSIVE LabelDict(_)
LabelDict(lines) ==
    IF lines = <<>> THEN EmptyDict
    ELSE LET before == LabelDict(SubSeq(lines, 1, Len(lines) - 1))
             l == Last(lines)
         IN  IF l.colon
             THEN Put(before, StripText(l.left), CleanText(l.right))
             ELSE before

\* update-loop mutant: only the first section's items are relabeled.
RelabelFirstSectionOnly(secs, knowledge_points) ==
    [a \in DOMAIN secs |->
        [secs[a] EXCEPT !.questions =
            [b \in DOMAIN secs[a].questions |->
                LET q == secs[a].questions[b]
                IN  IF a = 1 /\ q.question_number \in DOMAIN knowledge_points
                    THEN [q EXCEPT !.knowledge_point =
                              knowledge_points[q.question_number]]
                    ELSE q]]]

\* The update loop over sections and questions.
Relabel(secs, knowledge_points) ==
    [a \in DOMAIN secs |->
        [secs[a] EXCEPT !.questions =
            [b \in DOMAIN secs[a].questions |->
                LET q == secs[a].questions[b]
                IN  IF q.question_number \in DOMAIN knowledge_points
                    THEN [q EXCEPT !.knowledge_point =
                              knowledge_points[q.question_number]]
                    ELSE q]]]

RECURSIVE AllQuestions(_)
AllQuestions(secs) ==
    IF secs = <<>> THEN <<>>
    ELSE secs[1].questions \o AllQuestions(Tail(secs))

Topics(secs) ==
    LET qs == AllQuestions(secs)
    IN  {qs[k].knowledge_point : k \in DOMAIN qs}

\* knowledge_questions[knowledge]
QuestionsOf(secs, knowledge) ==
    SelectSeq(AllQuestions(secs), LAMBDA q : q.knowledge_point = knowledge)

RECURSIVE SumOf(_, _)
SumOf(qs, field) ==
    IF qs = <<>> THEN 0 ELSE qs[1][field] + SumOf(Tail(qs), field)

\* objective mutant: all items right or nothing.
ObjectiveMasteryAllOrNothing(correct_count, count) ==
    IF correct_count = count THEN Rat(100, 1) ELSE Rat(0, 1)

\* objective_mastery = (correct_count / len(objective_questions)) * 100
ObjectiveMastery(correct_count, count) ==
    RatMulInt(Rat(correct_count, count), 100)

\* subjective mutant: a zero total counts as full marks.
SubjectiveMasteryFullOnZero(subjective_score, subjective_total) ==
    IF subjective_total > 0
    THEN RatMulInt(Rat(subjective_score, subjective_total), 100)
    ELSE Rat(100, 1)

\* subjective_mastery, with its guard against a zero total.
SubjectiveMastery(subjective_score, subjective_total) ==
    IF subjective_total > 0
    THEN RatMulInt(Rat(subjective_score, subjective_total), 100)
    ELSE Rat(0, 1)

\* weighting mutant: the sub-masteries are added unweighted.
WeightedByOne(mastery, count) == mastery

\* total_mastery_score += mastery * len(questions)
Weighted(mastery, count) == RatMulInt(mastery, count)

\* preliminary_mastery[knowledge]
Preliminary(questions) ==
    LET objective_questions ==
            SelectSeq(questions, LAMBDA q : q.question_type \in ObjectiveTypes)
        subjective_questions ==
            SelectSeq(questions,
                      LAMBDA q : q.question_type \in SubjectiveTypes)
        correct_count ==
            Len(SelectSeq(objective_questions,
                          LAMBDA q : q.student_score = q.score))
        no == Len(objective_questions)
        ns == Len(subjective_questions)
        objective_part ==
            IF no > 0
            THEN Weighted(ObjectiveMastery(correct_count, no), no)
            ELSE Rat(0, 1)
        subjective_score == SumOf(subjective_questions, "student_score")
        subjective_total == SumOf(subjective_questions, "score")
        subjective_part ==
            IF ns > 0
            THEN Weighted(SubjectiveMastery(subjective_score,
                                            subjective_total), ns)
            ELSE Rat(0, 1)
        total_mastery_score == RatAdd(objective_part, subjective_part)
        total_questions == no + ns
    IN  IF total_questions > 0
        THEN RatDivInt(total_mastery_score, total_questions)
        ELSE Rat(0, 1)

\* float(mastery_str.replace('%', '').strip())
ParseFloat(t) ==
    CASE t = "85%"   -> [ok |-> TRUE, value |-> Rat(85, 1)]
      [] t = " 150 " -> [ok |-> TRUE, value |-> Rat(150, 1)]
      [] t = "40"    -> [ok |-> TRUE, value |-> Rat(40, 1)]
      [] OTHER       -> [ok |-> FALSE, value |-> Rat(0, 1)]

\* knowledge_mastery[knowledge.strip()] = mastery, line by line; a line
\* whose number does not parse is skipped.
RECURSIVE MasteryDict(_)
MasteryDict(lines) ==
    IF lines = <<>> THEN EmptyDict
    ELSE LET before == MasteryDict(SubSeq(lines, 1, Len(lines) - 1))
             l == Last(lines)
         IN  IF l.colon /\ ParseFloat(l.right).ok
             THEN Put(before, StripText(l.left), ParseFloat(l.right).value)
             ELSE before

\* fallback mutant: topics without a number are left out.
FillFromNothing(parsed, preliminary) == parsed

\* Topics the response gave no number for take the preliminary value.
FillFromPreliminary(parsed, preliminary) ==
    [k \in DOMAIN parsed \cup DOMAIN preliminary |->
        IF k \in DOMAIN parsed THEN parsed[k] ELSE preliminary[k]]

\* "无法" in result or "不能" in result
HasRefusalWord(line) ==
    line \in {"sorry, wufa answer this", "you buneng skip the basics"}

\* validity mutant: every text passes.
SuggestionInvalidNever(lines) == FALSE

\* if not result.strip() or "无法" in result or "不能" in result
SuggestionInvalid(lines) ==
    \/ \A k \in DOMAIN lines : StripText(lines[k]) = ""
    \/ \E k \in DOMAIN lines : HasRefusalWord(lines[k])

FirstN(seq, n) == SubSeq(seq, 1, IF Len(seq) < n THEN Len(seq) ELSE n)

\* return suggestions[:5]
SuggestionCap == 5

\* [line.strip() for line in result.split('\n') if line.strip()][:5]
Suggestions(lines) ==
    LET stripped == [k \in DOMAIN lines |-> StripText(lines[k])]
    IN  FirstN(SelectSeq(stripped, LAMBDA l : l # ""), SuggestionCap)

\* bucket mutant: 0 is not singled out.
BucketsZeroAsWeak(mastery) ==
    LET in01 == {k \in DOMAIN mastery : RatEqInt(mastery[k], 100)}
        rest == DOMAIN mastery \ in01
    IN  [objective_mastered |-> in01,
         objective_wrong |-> {},
         subjective_mastered |-> {k \in rest : RatGeqInt(mastery[k], 80)},
         subjective_partial |->
             {k \in rest : ~RatGeqInt(mastery[k], 80)
                           /\ RatGeqInt(mastery[k], 60)},
         subjective_weak |-> {k \in rest : ~RatGeqInt(mastery[k], 60)}]

\* The five lists of generate_report_markdown (as sets of topics).
Buckets(mastery) ==
    LET in01 == {k \in DOMAIN mastery :
                    RatEqInt(mastery[k], 0) \/ RatEqInt(mastery[k], 100)}
        rest == DOMAIN mastery \ in01
    IN  [objective_mastered |-> {k \in in01 : RatEqInt(mastery[k], 100)},
         objective_wrong |-> {k \in in01 : ~RatEqInt(mastery[k], 100)},
         subjective_mastered |-> {k \in rest : RatGeqInt(mastery[k], 80)},
         subjective_partial |->
             {k \in rest : ~RatGeqInt(mastery[k], 80)
                           /\ RatGeqInt(mastery[k], 60)},
         subjective_weak |-> {k \in rest : ~RatGeqInt(mastery[k], 60)}]

DocInit ==
    /\ doc_pc = "label"
    /\ answer_sheet_content \in PipelineSheets
    /\ sections = ParseSections(answer_sheet_content)
    /\ preliminary_mastery = EmptyDict
    /\ knowledge_mastery = EmptyDict
    /\ learning_suggestions = <<>>
    /\ buckets = NoBuckets
    /\ doc_exc = NoExc
    /\ http_status = 0
    /\ oracle_log = <<>>
    /\ ProtoOff
    /\ VfOff
    /\ PaperOff
    /\ IsoOff

\* The pipeline raised: the handler's except turns it into HTTP 500.
DocRaise(class) ==
    /\ doc_pc' = "raised"
    /\ doc_exc' = class
    /\ http_status' = 500

\* _extract_knowledge_points_with_llm
ExtractKnowledgePoints(e) ==
    /\ doc_pc = "label"
    /\ oracle_log' = Append(oracle_log, e)
    /\ UNCHANGED <<answer_sheet_content, preliminary_mastery,
                   knowledge_mastery, learning_suggestions, buckets,
                   protoVars, vfVars, paperVars, isoVars>>
    /\ IF e.ev = "raise"
       THEN DocRaise(e.class) /\ UNCHANGED sections
       ELSE /\ sections' = Relabel(sections, LabelDict(e.lines))
            /\ doc_pc' = "mastery"
            /\ UNCHANGED <<doc_exc, http_status>>

\* _analyze_knowledge_mastery_with_llm
AnalyzeKnowledgeMastery(e) ==
    /\ doc_pc = "mastery"
    /\ oracle_log' = Append(oracle_log, e)
    /\ UNCHANGED <<answer_sheet_content, sections, learning_suggestions,
                   buckets, protoVars, vfVars, paperVars, isoVars>>
    /\ LET preliminary ==
               [k \in Topics(sections) |->
                   Preliminary(QuestionsOf(sections, k))]
       IN  /\ preliminary_mastery' = preliminary
           /\ IF e.ev = "raise"
              THEN DocRaise(e.class) /\ UNCHANGED knowledge_mastery
              ELSE /\ knowledge_mastery' =
                        FillFromPreliminary(MasteryDict(e.lines), preliminary)
                   /\ doc_pc' = "suggest"
                   /\ UNCHANGED <<doc_exc, http_status>>

\* _generate_learning_suggestions_with_llm, then generate_report_markdown
\* and the handler's answer.
GenerateLearningSuggestions(e) ==
    /\ doc_pc = "suggest"
    /\ oracle_log' = Append(oracle_log, e)
    /\ UNCHANGED <<answer_sheet_content, sections, preliminary_mastery,
                   knowledge_mastery, protoVars, vfVars, paperVars, isoVars>>
    /\ IF e.ev = "raise"
       THEN DocRaise(e.class) /\ UNCHANGED <<learning_suggestions, buckets>>
       ELSE IF SuggestionInvalid(e.lines)
       THEN DocRaise("ValueError")
            /\ UNCHANGED <<learning_suggestions, buckets>>
       ELSE /\ learning_suggestions' = Suggestions(e.lines)
            /\ buckets' = Buckets(knowledge_mastery)
            /\ doc_pc' = "done"
            /\ http_status' = 200
            /\ UNCHANGED doc_exc

LabelCall == \E e \in LabelEvents : ExtractKnowledgePoints(e)

\* ---- The labeling step on its own: _extract_knowledge_points_with_llm
\* called on the sections of any parsed sheet, with responses in which two
\* lines may carry the same ordinal.
LabelStepLines == LabelLines \cup {Line("1", "T3")}

LabelStepEvents ==
    {TextCall(l) : l \in SeqsUpTo(LabelStepLines, MaxLines)} \cup {RaisedCall}

LabelInit ==
    /\ doc_pc = "label"
    /\ answer_sheet_content \in PipelineSheets \cup IrregularSheets
    /\ sections = ParseSections(answer_sheet_content)
    /\ preliminary_mastery = EmptyDict
    /\ knowledge_mastery = EmptyDict
    /\ learning_suggestions = <<>>
    /\ buckets = NoBuckets
    /\ doc_exc = NoExc
    /\ http_status = 0
    /\ oracle_log = <<>>
    /\ ProtoOff
    /\ VfOff
    /\ PaperOff
    /\ IsoOff

LabelStepCall == \E e \in LabelStepEvents : ExtractKnowledgePoints(e)

LabelStepNext == LabelStepCall

SpecLabel == LabelInit /\ [][LabelStepNext]_vars

MasteryCall == \E e \in MasteryEvents : AnalyzeKnowledgeMastery(e)

SuggestionCall == \E e \in SuggestionEvents : GenerateLearningSuggestions(e)

DocNext == LabelCall \/ MasteryCall \/ SuggestionCall

SpecDoc == DocInit /\ [][DocNext]_vars

(***************************************************************************)
(* SpecAgg: _analyze_knowledge_mastery_with_llm called on sections handed  *)
(* to it directly; every item carries the one topic "qa".                  *)
(***************************************************************************)
MaxTopicItems == 2

ObjectiveItems ==
    {[question_type |-> "single_choice", score |-> 5, student_score |-> 5],
     [question_type |-> "single_choice", score |-> 5, student_score |-> 0],
     [question_type |-> "true_false", score |-> 5, student_score |-> 3]}

SubjectiveItems ==
    {[question_type |-> "short_answer", score |-> 5, student_score |-> 3],
     [question_type |-> "short_answer", score |-> 5, student_score |-> 4],
     [question_type |-> "programming", score |-> 0, student_score |-> 0],
     [question_type |-> "programming", score |-> 5, student_score |-> 7]}

QuestionsFrom(items) ==
    [j \in DOMAIN items |->
        Question(Ordinal(j), items[j].question_type, "qa", items[j].score,
                 items[j].student_score)]

SectionFrom(type, items) ==
    IF items = <<>> THEN <<>>
    ELSE <<Section(type, SumOf(items, "score"),
                   SumOf(items, "student_score"), QuestionsFrom(items))>>

AggSections ==
    {SectionFrom("single_choice", o) \o SectionFrom("short_answer", u) :
        o \in SeqsUpTo(ObjectiveItems, MaxTopicItems),
        u \in SeqsUpTo(SubjectiveItems, MaxTopicItems)}

AggEvents ==
    {TextCall(<<>>), TextCall(<<Line("qa", "high")>>),
     TextCall(<<Line("qa", " 150 ")>>), RaisedCall}

AggInit ==
    /\ doc_pc = "mastery"
    /\ answer_sheet_content = <<>>
    /\ sections \in AggSections
    /\ preliminary_mastery = EmptyDict
    /\ knowledge_mastery = EmptyDict
    /\ learning_suggestions = <<>>
    /\ buckets = NoBuckets
    /\ doc_exc = NoExc
    /\ http_status = 0
    /\ oracle_log = <<>>
    /\ ProtoOff
    /\ VfOff
    /\ PaperOff
    /\ IsoOff

AggCall == \E e \in AggEvents : AnalyzeKnowledgeMastery(e)

AggNext == AggCall

SpecAgg == AggInit /\ [][AggNext]_vars

(***************************************************************************)
(* SpecPaper: the paper generator behind /exam_generation.  One            *)
(* module-level MultiTypePaperGenerator serves every request; requests     *)
(* to /paper_generate follow one another and /paper_get_cached_input       *)
(* may be asked at any time.                                               *)
(*                                                                         *)
(* A text is a sequence of words, so that startswith is a prefix test.     *)
(* "shijuan" stands for the two characters the handler's prefix has in     *)
(* front of the words "shengcheng shibai:" every failure text starts       *)
(* with.                                                                   *)
(***************************************************************************)
MaxRetries == 3

MaxRequests == 3

PaperTopics == {"t1", "t2"}

\* request.question_types, as the handler rebuilds it (lines 31-34)
QuestionTypeConfigs ==
    {<<[index |-> "1", type |-> "choice", count |-> 2, score |-> 5]>>,
     <<[index |-> "1", type |-> "choice", count |-> 2, score |-> 5],
       [index |-> "2", type |-> "essay", count |-> 1, score |-> 10]>>}

GenFailed == "shengcheng shibai:"

\* f"生成失败: {type(e).__name__}: {str(e)}"
RetryFailure(class) == <<GenFailed, class>>

\* "生成失败: 未知错误", after the loop
UnknownFailure == <<GenFailed, "weizhi cuowu">>

\* the prefix the handler tests: "试卷生成失败:"
PaperFailedPrefix == <<"shijuan", GenFailed>>

StartsWith(text, prefix) ==
    /\ Len(text) >= Len(prefix)
    /\ SubSeq(text, 1, Len(prefix)) = prefix

\* Oracle texts: nothing, ten characters inside blanks, eleven characters.
EmptyText == <<>>
TenChars == <<" 0123456789 ">>
ElevenChars == <<"0123456789a">>

\* len(result.strip())
StrippedLen(text) ==
    CASE text = EmptyText   -> 0
      [] text = TenChars    -> 10
      [] text = ElevenChars -> 11
      [] OTHER              -> 12

\* result and len(result.strip()) > 10
LongEnough(text) == text # EmptyText /\ StrippedLen(text) > 10

PaperEvents ==
    {[ev |-> "text", content |-> c] : c \in {EmptyText, TenChars, ElevenChars}}
    \cup {[ev |-> "raise", class |-> "TimeoutError"]}

\* One pass of the loop of _call_api_with_retry with the agent doing e:
\* whether the function returns, what it returns, and the next attempt.
RetryStep(att, e, max_retries) ==
    IF e.ev = "text" /\ LongEnough(e.content)
    THEN [returns |-> TRUE, result |-> e.content, attempt |-> att]
    ELSE IF att = max_retries - 1
    THEN [returns |-> TRUE,
          result |-> IF e.ev = "raise" THEN RetryFailure(e.class)
                     ELSE UnknownFailure,
          attempt |-> att]
    ELSE [returns |-> FALSE, result |-> <<>>, attempt |-> att + 1]

\* cache_key = f"cache_{topic}_paper"
CacheKey(topic) == <<"cache", topic, "paper">>

\* json.dumps of the cache record
JsonDumps(data) == JsonText(data)

Msg(name, content) == [name |-> name, content |-> content, role |-> "system"]

\* get_cached_input: the first item of the memory, in its order, that
\* carries the key and whose content json.loads accepts.
CachedInput(memory, topic) ==
    LET hits == {k \in DOMAIN memory :
                    /\ memory[k].name = CacheKey(topic)
                    /\ JsonLoads(memory[k].content).raised = NoExc}
    IN  IF hits = {} THEN NoCachedData
        ELSE JsonLoads(memory[CHOOSE k \in hits : \A j \in hits : k <= j]
                           .content).value

\* lines 39-56 of the handler
Respond(paper, answers) ==
    IF StartsWith(paper, PaperFailedPrefix)
    THEN [sent |-> TRUE, success |-> FALSE, message |-> paper,
          data |-> NoCachedData]
    ELSE [sent |-> TRUE, success |-> TRUE, message |-> <<"ok">>,
          data |-> [paper_content |-> paper, answer_content |-> answers]]

PaperInit ==
    /\ cache_memory = <<>>
    /\ paper_pc = "idle"
    /\ paper_attempt = 0
    /\ paper_content = <<>>
    /\ answer_content = <<>>
    /\ paper_log = <<>>
    /\ response = NoResponse
    /\ cached = NoQuery
    /\ ProtoOff
    /\ VfOff
    /\ DocOff
    /\ IsoOff

\* generate_paper up to its first oracle call: cache_user_input, then
\* generate_full_paper enters _generate_paper.
GeneratePaper(topic, question_types) ==
    /\ paper_pc \in {"idle", "responded"}
    /\ Len(cache_memory) < MaxRequests
    /\ cache_memory' =
           Append(cache_memory,
                  Msg(CacheKey(topic),
                      JsonDumps([topic |-> topic,
                                 question_types |-> question_types,
                                 timestamp |-> Len(cache_memory) + 1])))
    /\ paper_pc' = "paper"
    /\ paper_attempt' = 0
    /\ paper_content' = <<>>
    /\ answer_content' = <<>>
    /\ paper_log' = <<>>
    /\ response' = NoResponse
    /\ UNCHANGED <<cached, protoVars, vfVars, docVars, isoVars>>

\* One oracle call of _generate_paper.
PaperAttempt(e) ==
    /\ paper_pc = "paper"
    /\ LET r == RetryStep(paper_attempt, e, MaxRetries)
       IN  /\ paper_log' =
                 Append(paper_log,
                        [prompt |-> "paper", paper |-> <<>>,
                         ok |-> e.ev = "text" /\ LongEnough(e.content)])
           /\ IF r.returns
              THEN /\ paper_content' = r.result
                   /\ paper_pc' = "answers"
                   /\ paper_attempt' = 0
              ELSE /\ paper_attempt' = r.attempt
                   /\ UNCHANGED <<paper_content, paper_pc>>
    /\ UNCHANGED <<cache_memory, answer_content, response, cached,
                   protoVars, vfVars, docVars, isoVars>>

\* One oracle call of _generate_answers(paper_content); when it returns,
\* generate_full_paper returns both texts and the handler answers.
AnswersAttempt(e) ==
    /\ paper_pc = "answers"
    /\ LET r == RetryStep(paper_attempt, e, MaxRetries)
       IN  /\ paper_log' =
                 Append(paper_log,
                        [prompt |-> "answers", paper |-> paper_content,
                         ok |-> e.ev = "text" /\ LongEnough(e.content)])
           /\ IF r.returns
              THEN /\ answer_content' = r.result
                   /\ response' = Respond(paper_content, r.result)
                   /\ paper_pc' = "responded"
                   /\ paper_attempt' = 0
              ELSE /\ paper_attempt' = r.attempt
                   /\ UNCHANGED <<answer_content, response, paper_pc>>
    /\ UNCHANGED <<cache_memory, paper_content, cached,
                   protoVars, vfVars, docVars, isoVars>>

\* /paper_get_cached_input/{topic}
GetCachedInput(topic) ==
    /\ cached' = [asked |-> TRUE, topic |-> topic, at |-> Len(cache_memory),
                  data |-> CachedInput(cache_memory, topic)]
    /\ UNCHANGED <<cache_memory, paper_pc, paper_attempt, paper_content,
                   answer_content, paper_log, response,
                   protoVars, vfVars, docVars, isoVars>>

PaperRequest ==
    \E t \in PaperTopics, q \in QuestionTypeConfigs : GeneratePaper(t, q)

PaperCall == \E e \in PaperEvents : PaperAttempt(e)

AnswersCall == \E e \in PaperEvents : AnswersAttempt(e)

CacheQuery == \E t \in PaperTopics : GetCachedInput(t)

PaperNext == PaperRequest \/ PaperCall \/ AnswersCall \/ CacheQuery

SpecPaper == PaperInit /\ [][PaperNext]_vars

(***************************************************************************)
(* SpecIso: two requests to the answer-sheet endpoint served by the one    *)
(* module-level student_analyzer.  A request runs from one await to the    *)
(* next without interruption; between awaits the other request may run.    *)
(* The only field of the instance a request assigns is                     *)
(* answer_sheet_content; everything else a request works on is local to    *)
(* its handler.                                                            *)
(***************************************************************************)
RequestIds == {"r1", "r2"}

NewRequest ==
    [pc |-> "new", content |-> <<>>, sections |-> <<>>,
     knowledge_mastery |-> EmptyDict, learning_suggestions |-> <<>>,
     buckets |-> NoBuckets, status |-> 0, exc |-> NoExc, log |-> <<>>]

\* report = student_analyzer.parse_answer_sheet(content)
ParsedRequest(content) ==
    [NewRequest EXCEPT !.pc = "label", !.content = content,
                       !.sections = ParseSections(content)]

\* sections mutant: the steps work on the sheet the instance field holds.
ReportSectionsFromInstance(report_sections, instance_content) ==
    ParseSections(instance_content)

\* The handler hands report.sections, its own local, to the steps.
ReportSections(report_sections, instance_content) == report_sections

RequestRaised(req, class) ==
    [req EXCEPT !.pc = "raised", !.exc = class, !.status = 500]

\* One awaited step of the handler for the request with locals req, the
\* oracle doing e, the instance field holding instance_content.
AnalyzerStep(req, e, instance_content) ==
    LET secs == ReportSections(req.sections, instance_content)
        logged == [req EXCEPT !.log = Append(req.log, e)]
    IN  IF e.ev = "raise" THEN RequestRaised(logged, e.class)
        ELSE CASE req.pc = "label" ->
                    [logged EXCEPT !.sections = Relabel(secs, LabelDict(e.lines)),
                                   !.pc = "mastery"]
               [] req.pc = "mastery" ->
                    [logged EXCEPT
                        !.knowledge_mastery =
                            FillFromPreliminary(
                                MasteryDict(e.lines),
                                [k \in Topics(secs) |->
                                    Preliminary(QuestionsOf(secs, k))]),
                        !.pc = "suggest"]
               [] req.pc = "suggest" ->
                    IF SuggestionInvalid(e.lines)
                    THEN RequestRaised(logged, "ValueError")
                    ELSE [logged EXCEPT
                            !.learning_suggestions = Suggestions(e.lines),
                            !.buckets = Buckets(req.knowledge_mastery),
                            !.pc = "done", !.status = 200]

IsoSheets == PipelineSheets

IsoEvents(at) ==
    CASE at = "label" ->
            {TextCall(<<Line("1", " T1")>>), TextCall(<<Line(" 2 ", "'T2'")>>),
             RaisedCall}
      [] at = "mastery" ->
            {TextCall(<<Line("T1", "85%")>>), TextCall(<<>>)}
      [] at = "suggest" ->
            {TextCall(<<"review loops", "", " practice more ">>),
             TextCall(<<"">>)}
      [] OTHER -> {}

IsoInit ==
    /\ requests = [r \in RequestIds |-> NewRequest]
    /\ ProtoOff
    /\ VfOff
    /\ DocOff
    /\ PaperOff

\* A request arrives: parse_answer_sheet stores the text in the instance
\* and parses it, up to the first await.
RequestArrives(r, content) ==
    /\ requests[r].pc = "new"
    /\ answer_sheet_content' = content
    /\ requests' = [requests EXCEPT ![r] = ParsedRequest(content)]
    /\ UNCHANGED <<doc_pc, sections, preliminary_mastery, knowledge_mastery,
                   learning_suggestions, buckets, doc_exc, http_status,
                   oracle_log, protoVars, vfVars, paperVars>>

\* The oracle call a request awaits returns, and the request runs to its
\* next await or to its answer.
RequestResumes(r, e) ==
    /\ requests[r].pc \in {"label", "mastery", "suggest"}
    /\ requests' = [requests EXCEPT
                       ![r] = AnalyzerStep(requests[r], e,
                                           answer_sheet_content)]
    /\ UNCHANGED <<docVars, protoVars, vfVars, paperVars>>

Arrival == \E r \in RequestIds, c \in IsoSheets : RequestArrives(r, c)

Resumption ==
    \E r \in RequestIds :
        \E e \in IsoEvents(requests[r].pc) : RequestResumes(r, e)

IsoNext == Arrival \/ Resumption

SpecIso == IsoInit /\ [][IsoNext]_vars

(***************************************************************************)
(* Claims about the verify-fix loop and the oracle call protocol.          *)
(***************************************************************************)
AllNonCompliant ==
    \A k \in 1..Len(verification_result_history) :
        ~verification_result_history[k].is_compliant

\* C1 (as stated): with every verdict non-compliant and max_fix_attempts = N
\* the loop ends after exactly N verification steps and N-1 fix steps and
\* returns the artifact produced by the (N-1)-th fix step.
C1_NMinusOneFixSteps ==
    (pc = "done" /\ AllNonCompliant) =>
        /\ verify_steps = max_fix_attempts
        /\ fix_steps = max_fix_attempts - 1
        /\ ret = <<exam_question_history[max_fix_attempts]>>

\* C1 (amended): a run that returns after only non-compliant verdicts has
\* made exactly N verification steps and N fix steps (a fix follows every
\* non-compliant verdict, the last included) and returns the artifact the
\* N-th fix step produced.
C1_NFixSteps ==
    (pc = "done" /\ AllNonCompliant) =>
        /\ verify_steps = max_fix_attempts
        /\ fix_steps = max_fix_attempts
        /\ Len(verification_result_history) = max_fix_attempts
        /\ Len(exam_question_history) = max_fix_attempts + 1
        /\ last_fix.done /\ last_fix.returned
        /\ ret = <<last_fix.result>>
        /\ ret = <<exam_question_history[max_fix_attempts + 1]>>

C1_Witness ==
    /\ pc = "done"
    /\ AllNonCompliant
    /\ max_fix_attempts = 3
    /\ fix_steps = 3

\* C2: the verify-fix loop never raises, whatever the oracle does.
C2_NeverRaises == pc # "raised"

\* C3: a fix step whose oracle attempts all failed returns normally an
\* artifact equal, field by field, to the artifact it was given.
C3_FixDefaultsToInput ==
    (last_fix.done /\ last_fix.exhausted) =>
        /\ last_fix.returned
        /\ \A f \in FixRequiredFields : last_fix.result[f] = last_fix.given[f]

AllUnparsable(p) ==
    \A k \in 1..Len(p.events) :
        p.events[k] = [ev |-> "text", content |-> NotJson]

\* C4: when the oracle answers unparsable text on every call, the protocol
\* calls it exactly max_retry_attempts times and then returns exactly
\* default_factory(), without raising.
C4_RetryExhaustion ==
    AllUnparsable(proto) =>
        /\ proto.outcome \in {"running", "default"}
        /\ proto.outcome = "running" => proto.calls < max_retry_attempts
        /\ proto.outcome = "default" =>
              /\ proto.calls = max_retry_attempts
              /\ proto.value = DefaultOf(step, Question0)

C4_Witness ==
    /\ AllUnparsable(proto)
    /\ proto.outcome = "default"
    /\ max_retry_attempts = 3
    /\ proto.calls = 3

\* C5: an oracle call that itself fails is one failed attempt: the protocol
\* goes on to the next attempt or, after the last, returns the default; the
\* failure does not leave the protocol.
C5_TransportFailureRetried ==
    (proto.calls > 0 /\ Last(proto.events).ev = "raise") =>
        /\ proto.outcome \in {"running", "default"}
        /\ proto.fails = proto.calls

\* C6: a value the protocol returns as a success is a mapping that holds
\* every required field.
C6_AcceptedIsRecord ==
    proto.outcome = "accepted" =>
        /\ proto.value.kind = "object"
        /\ RequiredFieldsOf(step) \subseteq DOMAIN proto.value.fields

\* C7: when the first verdict is compliant the loop makes exactly one
\* verification step and no fix step and returns the input artifact
\* unchanged.
C7_CompliantFirst ==
    (Len(verification_result_history) >= 1
        /\ verification_result_history[1].is_compliant) =>
        /\ pc = "done"
        /\ verify_steps = 1
        /\ fix_steps = 0
        /\ exam_question_history = <<input_question>>
        /\ ret = <<input_question>>

C7_Witness ==
    /\ pc = "done"
    /\ Len(verification_result_history) = 1
    /\ verification_result_history[1].is_compliant
    /\ max_fix_attempts = 3

\* JSON values the verdict schema reads as a true compliant flag.
TrueFlags ==
    {JBool(TRUE), JNum("1")}
    \cup {JStr(s) : s \in {"true", "yes", "on", "1", "t", "y"}}

C9_ReturnsHistory ==
    pc = "done" =>
        ret = <<Last(exam_question_history), verification_result_history>>

\* C9 (amended): the loop returns the last artifact alone; the verdict
\* history holds one verdict per verification step, in the order made, but
\* stays local to the call.
C9_ReturnsArtifactOnly ==
    /\ Len(origin) = Len(verification_result_history)
    /\ \A k \in 1..Len(origin) : origin[k].iteration = k - 1
    /\ pc = "done" =>
          /\ ret = <<Last(exam_question_history)>>
          /\ Len(verification_result_history) = verify_steps

C9_Witness ==
    /\ pc = "done"
    /\ Len(verification_result_history) >= 2
    /\ Len(ret) = 1

\* The oracle call that ended the request with an exception did one of the
\* two things the pipeline does not absorb.
RaisingCall(e, position) ==
    \/ e.ev = "raise"
    \/ position = 3 /\ e.ev = "text" /\
       (\/ \A k \in DOMAIN e.lines : StripText(e.lines[k]) = ""
        \/ \E k \in DOMAIN e.lines : HasRefusalWord(e.lines[k]))

TopicObjective ==
    SelectSeq(AllQuestions(sections),
              LAMBDA q : q.question_type \in
                  {"single_choice", "multi_choice", "true_false",
                   "fill_blank"})
TopicSubjective ==
    SelectSeq(AllQuestions(sections),
              LAMBDA q : q.question_type \in {"short_answer", "programming"})
TopicCorrect ==
    Cardinality({j \in DOMAIN TopicObjective :
                    TopicObjective[j].student_score = TopicObjective[j].score})

Aggregated == doc_pc # "mastery" /\ "qa" \in DOMAIN preliminary_mastery

\* The scenario of C11: objective items right and wrong, subjective items
\* 3/5 and 4/5.
MixedScenario ==
    /\ Len(TopicObjective) = 2
    /\ TopicCorrect = 1
    /\ \A j \in 1..2 : TopicObjective[j].student_score \in {0, 5}
    /\ Len(TopicSubjective) = 2
    /\ {<<TopicSubjective[j].student_score, TopicSubjective[j].score>> :
           j \in 1..2} = {<<3, 5>>, <<4, 5>>}

\* C11: a topic mixing objective and subjective items (item scores not all
\* zero) gets the count-weighted average of its two sub-masteries, where
\* objective mastery is 100 * correct / count and subjective mastery is
\* 100 * student scores / item scores; the scenario gives 60.
C11_MixedWeightedAverage ==
    Aggregated =>
        LET no == Len(TopicObjective)
            ns == Len(TopicSubjective)
            got == SumOf(TopicSubjective, "student_score")
            of == SumOf(TopicSubjective, "score")
            p == preliminary_mastery["qa"]
        IN  /\ (no > 0 /\ ns > 0 /\ of > 0) =>
                   \* p = (100*c/no * no + 100*got/of * ns) / (no + ns)
                   p.n * of * (no + ns)
                       = p.d * (100 * TopicCorrect * of + 100 * got * ns)
            /\ MixedScenario => p = [n |-> 60, d |-> 1]

C11_Witness == Aggregated /\ MixedScenario /\ doc_pc = "suggest"

\* C12: a topic without objective items gets exactly
\* 100 * student scores / item scores when the item scores do not sum to
\* zero, and 0 without any error when they do.
C12_SubjectiveOnly ==
    (Aggregated /\ Len(TopicObjective) = 0) =>
        LET got == SumOf(TopicSubjective, "student_score")
            of == SumOf(TopicSubjective, "score")
            p == preliminary_mastery["qa"]
        IN  /\ of # 0 => p.n * of = p.d * 100 * got
            /\ of = 0 => p = [n |-> 0, d |-> 1]
            /\ doc_exc \notin {"ZeroDivisionError"}
            /\ doc_pc = "raised" => Last(oracle_log).ev = "raise"

C12_Witness ==
    /\ Aggregated
    /\ Len(TopicObjective) = 0
    /\ Len(TopicSubjective) > 0
    /\ SumOf(TopicSubjective, "score") = 0
    /\ doc_pc = "suggest"

\* The mastery step of the request has returned.
Refined == doc_pc \in {"suggest", "done"}

\* C13 (as stated): every value of the returned topic-to-mastery map lies
\* in 0..100.
C13_MasteryInRange ==
    Refined =>
        \A t \in DOMAIN knowledge_mastery :
            /\ knowledge_mastery[t].n >= 0
            /\ knowledge_mastery[t].n <= 100 * knowledge_mastery[t].d

\* C14 (as stated): the keys of the returned map are exactly the topic
\* labels the items carry.
C14_KeysAreTopics ==
    Refined => DOMAIN knowledge_mastery = Topics(sections)

\* The lines of the mastery response that give topic t a number.
NumberLinesFor(t) ==
    LET lines == oracle_log[2].lines
    IN  {j \in DOMAIN lines :
            /\ lines[j].colon
            /\ StripText(lines[j].left) = t
            /\ ParseFloat(lines[j].right).ok}

\* C15: after refinement every topic observed among the items has a final
\* value, and a topic for which the response has no line that parses as a
\* number keeps its preliminary estimate.
C15_FallbackToPreliminary ==
    Refined =>
        /\ Topics(sections) \subseteq DOMAIN knowledge_mastery
        /\ \A t \in Topics(sections) :
               NumberLinesFor(t) = {} =>
                   knowledge_mastery[t] = Preliminary(QuestionsOf(sections, t))

C15_Witness ==
    /\ Refined
    /\ "qa" \in Topics(sections)
    /\ \E j \in DOMAIN oracle_log[2].lines :
          /\ oracle_log[2].lines[j].colon
          /\ oracle_log[2].lines[j].left = "qa"
          /\ ~ParseFloat(oracle_log[2].lines[j].right).ok
    /\ \E t \in Topics(sections) : NumberLinesFor(t) # {}

\* C16 (as stated): a topic is in the objective-topics-wrong bucket only
\* if its mastery is exactly 0 and all its items are of objective types.
C16_WrongBucketObjectiveOnly ==
    doc_pc = "done" =>
        \A t \in buckets.objective_wrong :
            /\ knowledge_mastery[t].n = 0
            /\ t \in Topics(sections)
            /\ \A j \in DOMAIN QuestionsOf(sections, t) :
                   QuestionsOf(sections, t)[j].question_type
                       \in {"single_choice", "multi_choice", "true_false",
                            "fill_blank"}

\* The bucket the value v belongs to.
BucketOf(v) ==
    CASE v.n = 100 * v.d -> "objective_mastered"
      [] v.n = 0         -> "objective_wrong"
      [] v.n # 100 * v.d /\ v.n # 0 /\ v.n >= 80 * v.d
                         -> "subjective_mastered"
      [] v.n # 0 /\ v.n < 80 * v.d /\ v.n >= 60 * v.d
                         -> "subjective_partial"
      [] OTHER           -> "subjective_weak"

\* C17: the report puts every topic of the mastery map in exactly one of
\* the five buckets, the one its value selects: 100 objective-correct, 0
\* objective-wrong, otherwise >= 80 good, >= 60 partial, below 60 weak.
C17_OneBucketByValue ==
    doc_pc = "done" =>
        /\ \A b \in DOMAIN buckets : buckets[b] \subseteq DOMAIN knowledge_mastery
        /\ \A t \in DOMAIN knowledge_mastery :
               \A b \in DOMAIN buckets :
                   t \in buckets[b] <=> b = BucketOf(knowledge_mastery[t])

C17_Witness ==
    /\ doc_pc = "done"
    /\ Cardinality({b \in DOMAIN buckets : buckets[b] # {}}) >= 3
    /\ buckets.objective_wrong # {}

\* The types that have a heading in the sheet, and the Sections of a type.
HeadingTypes ==
    {answer_sheet_content[j].type :
        j \in {x \in DOMAIN answer_sheet_content :
                  answer_sheet_content[x].k = "heading"}}
SectionsOfType(t) ==
    {j \in DOMAIN sections : sections[j].question_type = t}

\* C18 (as stated): a type without a heading in the document has no Section
\* in the output of the segmentation; in particular a document without a
\* programming heading yields no programming Section.
C18_NoHeadingNoSection ==
    doc_pc = "parsed" =>
        \A j \in DOMAIN SectionTypes :
            SectionTypes[j] \notin HeadingTypes
                => SectionsOfType(SectionTypes[j]) = {}

\* A sheet with exactly one regular section per type, closed by the summary
\* heading.
CompleteSheet ==
    /\ answer_sheet_content \in RegularSheets
    /\ Cardinality(HeadingTypes) = Len(SectionTypes)
    /\ Last(answer_sheet_content) = SummaryHeading

\* C19 (as stated): on a sheet with one section per type, in any order, the
\* segmentation returns one Section per type, each with the total and the
\* student score written under its own heading.
C19_OwnScoresPerSection ==
    (doc_pc = "parsed" /\ CompleteSheet) =>
        \A j \in DOMAIN SectionTypes :
            LET t == SectionTypes[j]
            IN  /\ Cardinality(SectionsOfType(t)) = 1
                /\ \A x \in SectionsOfType(t) :
                       /\ sections[x].total_score = TotalOf(t)
                       /\ sections[x].student_score = StudentOf(t)

\* C20 (as stated): the sheet made of one single-choice section (共10分,
\* 得分：8, one item) and nothing after it yields exactly one Section:
\* single-choice, total 10, student score 8, one item.
C20_SingleSectionSheet ==
    (/\ doc_pc = "parsed"
     /\ answer_sheet_content =
            <<Heading("single_choice", 10), ScoreLine(8), Item("qa", 5, 5)>>)
    => /\ Len(sections) = 1
       /\ sections[1].question_type = "single_choice"
       /\ sections[1].total_score = 10
       /\ sections[1].student_score = 8
       /\ Len(sections[1].questions) = 1

\* The lines of the sheet from the heading of type t up to the next
\* top-level heading (a type heading or the summary heading).
OwnHeading(t) ==
    Min({x \in DOMAIN answer_sheet_content :
            answer_sheet_content[x].k = "heading"
            /\ answer_sheet_content[x].type = t})
OwnEnd(t) ==
    LET later == {x \in (OwnHeading(t) + 1)..Len(answer_sheet_content) :
                     answer_sheet_content[x].k \in {"heading", "summary"}}
    IN  IF later = {} THEN Len(answer_sheet_content) ELSE Min(later) - 1
OwnLines(t) == SubSeq(answer_sheet_content, OwnHeading(t), OwnEnd(t))
OwnItems(t) == SelectSeq(OwnLines(t), LAMBDA l : l.k = "item")
OwnScores(t) == SelectSeq(OwnLines(t), LAMBDA l : l.k = "score")

\* A sheet whose programming section is the last thing in it.
ProgrammingToEnd ==
    /\ "programming" \in HeadingTypes
    /\ OwnEnd("programming") = Len(answer_sheet_content)
    /\ OwnItems("programming") # <<>>
    /\ OwnScores("programming") # <<>>

\* C21 (as stated): a programming section that runs to the end of input is
\* returned with its own total, its own student score and all its items.
C21_ProgrammingToEndOfInput ==
    (doc_pc = "parsed" /\ ProgrammingToEnd) =>
        \E x \in SectionsOfType("programming") :
            /\ sections[x].total_score
                   = answer_sheet_content[OwnHeading("programming")].n
            /\ sections[x].student_score = OwnScores("programming")[1].m
            /\ Len(sections[x].questions) = Len(OwnItems("programming"))

\* The blocks the items of the returned Section of index x were read from.
BlocksOf(x) ==
    QuestionBlocks(SectionSearch(answer_sheet_content,
                                 sections[x].question_type).text)

\* C22: an item block without "（N分）" gives item score 0, an item block
\* without "得分：N" gives student score 0, and nothing is raised.
C22_MissingMarkersDefault ==
    doc_pc = "parsed" =>
        /\ doc_exc = NoExc
        /\ \A x \in DOMAIN sections :
              /\ Len(sections[x].questions) = Len(BlocksOf(x))
              /\ \A j \in DOMAIN sections[x].questions :
                    LET block == BlocksOf(x)[j]
                        q == sections[x].questions[j]
                    IN  /\ (\A y \in DOMAIN block :
                               block[y].k = "item" => block[y].n = NoMark)
                              => q.score = 0
                        /\ (\A y \in DOMAIN block : block[y].m = NoMark)
                              => q.student_score = 0

C22_Witness ==
    /\ doc_pc = "parsed"
    /\ \E x \in DOMAIN sections :
          \E j \in DOMAIN sections[x].questions :
              /\ \A y \in DOMAIN BlocksOf(x)[j] :
                    /\ BlocksOf(x)[j][y].n = NoMark
                    /\ BlocksOf(x)[j][y].m = NoMark
              /\ sections[x].questions[j].score = 0
              /\ sections[x].questions[j].student_score = 0

\* C26 (as stated): the items of each Section are exactly the items
\* between the section's own heading and the next top-level heading, in
\* document order, numbered 1..k.
C26_OwnItemsOnly ==
    doc_pc = "parsed" =>
        \A x \in DOMAIN sections :
            sections[x].question_type \in HeadingTypes =>
                LET own == OwnItems(sections[x].question_type)
                    qs == sections[x].questions
                IN  /\ Len(qs) = Len(own)
                    /\ \A j \in DOMAIN qs :
                          /\ qs[j].question_number = Ordinal(j)
                          /\ own[j].label # "" =>
                                qs[j].knowledge_point = own[j].label

\* C24: within one protocol invocation the first call sends the caller's
\* prompt, every later call sends one and the same escalation prompt, which
\* is not the caller's prompt, and a call is made only after all earlier
\* calls have failed.
C24_PromptEscalation ==
    /\ Len(proto.prompts) = proto.calls
    /\ proto.calls >= 1 => proto.prompts[1] = "prompt"
    /\ \A a, b \in 2..proto.calls :
          /\ proto.prompts[a] = proto.prompts[b]
          /\ proto.prompts[a] # proto.prompts[1]
    /\ proto.calls <= proto.fails + 1
    /\ proto.outcome = "running" => proto.calls = proto.fails
    /\ proto.calls <= max_retry_attempts

C24_Witness ==
    /\ proto.calls = 3
    /\ proto.fails = 2
    /\ proto.outcome = "accepted"

\* C27: verify_and_fix_exam_question with max_fix_attempts = N ends when
\* every oracle call completes; it starts at most N verification steps and
\* at most N fix steps, a step awaits at most 3 oracle calls, and at most
\* 6N oracle calls are awaited in all.
C27_TerminatesWithin6N ==
    /\ [](/\ verify_steps <= max_fix_attempts
          /\ fix_steps <= max_fix_attempts
          /\ vf.calls <= 3
          /\ oracle_calls <= 6 * max_fix_attempts)
    /\ <>(pc \in {"done", "raised"})

C27_Witness ==
    /\ pc = "done"
    /\ max_fix_attempts >= 2
    /\ oracle_calls = 6 * max_fix_attempts

\* A topic of objective items only has been aggregated.
ObjectiveOnly ==
    Aggregated /\ Len(TopicObjective) > 0 /\ Len(TopicSubjective) = 0

LinesFor(lines, n) ==
    {k \in DOMAIN lines : lines[k].colon /\ StripText(lines[k].left) = n}

MaxOf(S) == CHOOSE k \in S : \A j \in S : j <= k

\* C28: after the topic-labeling call returned text, every item whose ordinal
\* has a line in the response carries the cleaned label of the last such line,
\* whatever its section, every item whose ordinal has no line keeps the label
\* parsing gave it, and nothing else of any item or section has changed.
C28_LabelsKeyedByOrdinal ==
    (doc_pc = "mastery" /\ Len(oracle_log) = 1) =>
        LET lines == oracle_log[1].lines
            initial == ParseSections(answer_sheet_content)
        IN  /\ DOMAIN sections = DOMAIN initial
            /\ \A a \in DOMAIN sections :
                  /\ DOMAIN sections[a].questions = DOMAIN initial[a].questions
                  /\ [sections[a] EXCEPT !.questions = <<>>]
                        = [initial[a] EXCEPT !.questions = <<>>]
                  /\ \A b \in DOMAIN sections[a].questions :
                        LET q == sections[a].questions[b]
                            q0 == initial[a].questions[b]
                            K == LinesFor(lines, q0.question_number)
                        IN  /\ [q EXCEPT !.knowledge_point = ""]
                                  = [q0 EXCEPT !.knowledge_point = ""]
                            /\ q.knowledge_point =
                                  IF K # {}
                                  THEN CleanText(lines[MaxOf(K)].right)
                                  ELSE q0.knowledge_point

\* Two sections each hold an item with ordinal 1, the response names ordinal 1
\* twice with different labels and leaves ordinal 2 out: both items 1 carry the
\* second label and an item 2 still carries its parsed label.
C28_Witness ==
    /\ doc_pc = "mastery"
    /\ Len(oracle_log) = 1
    /\ LET lines == oracle_log[1].lines
       IN  /\ Len(lines) = 2
           /\ LinesFor(lines, "1") = {1, 2}
           /\ CleanText(lines[1].right) # CleanText(lines[2].right)
           /\ \E a1, a2 \in DOMAIN sections :
                 /\ a1 # a2
                 /\ Len(sections[a1].questions) >= 1
                 /\ Len(sections[a2].questions) >= 1
                 /\ sections[a1].questions[1].knowledge_point
                       = CleanText(lines[2].right)
                 /\ sections[a2].questions[1].knowledge_point
                       = CleanText(lines[2].right)
           /\ \E a \in DOMAIN sections :
                 /\ Len(sections[a].questions) >= 2
                 /\ sections[a].questions[2].knowledge_point
                       = ParseSections(answer_sheet_content)[a]
                             .questions[2].knowledge_point

\* ---- C29, C30 (SpecPaper)
FailedPaperCalls ==
    {k \in DOMAIN paper_log :
        paper_log[k].prompt = "paper" /\ ~paper_log[k].ok}

AnswerCalls == {k \in DOMAIN paper_log : paper_log[k].prompt = "answers"}

\* C29: when all max_retries oracle attempts for the paper failed, no oracle
\* call is made for the answers of that paper, and the request is answered
\* with a paper text carrying the failure prefix and success = False.
C29_FailedPaperReportedAsFailure ==
    Cardinality(FailedPaperCalls) = MaxRetries =>
        /\ AnswerCalls = {}
        /\ paper_pc = "responded" =>
              /\ StartsWith(paper_content, PaperFailedPrefix)
              /\ response.success = FALSE

\* The cache entries for a topic among the first n items of the memory.
EntriesFor(topic, n) ==
    {k \in 1..n : cache_memory[k].name = CacheKey(topic)}

\* C30: get_cached_input(topic) returns the data of the most recent
\* cache_user_input call for the topic made before it, and None exactly
\* when there was no such call.
C30_MostRecentCached ==
    cached.asked =>
        LET E == EntriesFor(cached.topic, cached.at)
        IN  /\ (cached.data = NoCachedData) <=> (E = {})
            /\ E # {} =>
                  cached.data =
                      JsonLoads(cache_memory[CHOOSE k \in E :
                                                \A j \in E : j <= k]
                                    .content).value

\* ---- C23 (SpecIso)
\* The request processed on its own: the instance field holds its text
\* throughout and the oracle does what log says, call by call.
RECURSIVE Replay(_, _)
Replay(req, log) ==
    IF log = <<>> THEN req
    ELSE Replay(AnalyzerStep(req, Head(log), req.content), Tail(log))

====
